---------------------------- MODULE Spec2Model ----------------------------
(***************************************************************************)
(* Model of the Control class of src/src/control/control.ts: the command   *)
(* queue, the transient socket and the three timers of one Control         *)
(* instance, driven by the callers' operations and by the events that the   *)
(* node runtime delivers (connect, data, error, write completion, timers). *)
(*                                                                         *)
(* Every handler of the class is an operator from a state record to a      *)
(* state record, so that a handler that calls another one (receiveData ->  *)
(* handleNextCommand) is one atomic step, as it is on node's single        *)
(* thread.  An action applies one handler to the current state.            *)
(***************************************************************************)
EXTENDS Integers, Sequences, FiniteSets, TLC

\* ------------------------------------------------------------------ bounds
\* number of operations the callers call in one behaviour
MaxCommands == 2
\* number of chunks that the environment puts into one receive buffer
MaxReceived == 1

\* longest frame that is given to sendCommand directly
MaxFrameLen == 2

\* ------------------------------------------------------- inputs of the model
\* reply chunks the controller sends
DataChunks == {<<48>>}
\* errors a socket emits
SocketErrors == {"ECONNRESET"}
\* undefined, where a duration is expected
Undefined == 0
\* null, which the documentation of commandTimeoutLength gives to disable it
Null == -1
\* the constructor's default of commandTimeoutLength
DefaultCommandTimeoutLength == 1000
\* The options given at construction, as (mask given to Control.ackMask,
\* commandTimeoutLength, connectTimeoutLength): the constructor's defaults
\* first, then three more so that every two values of two different options
\* occur together (all acknowledgements on or off, each timeout set or undefined).
OptionInputs ==
    { <<15, DefaultCommandTimeoutLength, Undefined>>,
      <<0,  DefaultCommandTimeoutLength, 500>>,
      <<0,  Undefined,                   Undefined>>,
      <<15, Undefined,                   500>> }
\* arguments of setPower
PowerInputs == {TRUE}
\* bytes of the frames given to sendCommand directly: the least, the
\* greatest, and one that makes a sum of 256 with the greatest
FrameBytes == {0, 1, 255}
\* those frames: every sequence of such bytes up to the longest, the empty one too
FrameInputs == UNION {[1..n -> FrameBytes] : n \in 0..MaxFrameLen}

\* The table of the named patterns, name -> code: one name for each code of
\* 0x25..0x38, written as the pair of "pattern" and its code.
patterns == [n \in {<<"pattern", c>> : c \in 37..56} |-> n[2]]
\* pattern names given to setPattern: two of the table, one that is not in it
PatternInputs == {<<"pattern", 37>>, <<"pattern", 42>>, <<"no_such_pattern", 0>>}
\* codes given to setIAPattern: the ends of 1..300 and their neighbours
IAPatternInputs == {0, 1, 300, 301}
\* speeds given to the pattern operations
SpeedInputs == {50}
\* patterns given to setCustomPattern: a CustomMode of each transition type
\* (customMode: pattern instanceof CustomMode), one whose transition type is
\* none of the three, and an object that is not a CustomMode
CustomPatternInputs ==
    { [customMode |-> TRUE, colors |-> <<[red |-> 255, green |-> 0, blue |-> 0]>>,
       transitionType |-> "fade"],
      [customMode |-> TRUE, colors |-> <<>>, transitionType |-> "jump"],
      [customMode |-> TRUE,
       colors |-> <<[red |-> 0, green |-> 0, blue |-> 255],
                    [red |-> 0, green |-> 255, blue |-> 0]>>,
       transitionType |-> "strobe"],
      [customMode |-> TRUE, colors |-> <<[red |-> 255, green |-> 0, blue |-> 0]>>,
       transitionType |-> "blink"],
      [customMode |-> FALSE, colors |-> <<>>, transitionType |-> "fade"] }

\* colours given to the colour operations, as (red, green, blue): one with a
\* channel above 255
ColorInputs == {<<255, 0, 300>>}
\* warm-white and cold-white levels given to them
WarmWhiteInputs == {64}
ColdWhiteInputs == {32}

VARIABLES
    options,            \* this.options
    commandQueue,       \* this.commandQueue: entries [id, expectReply, command]
    socket,             \* this.socket: 0 (null) or the index of a socket
    receivedData,       \* this.receivedData
    receiveTimeout,     \* this.receiveTimeout: "armed", or "none" (undefined or expired)
    connectTimeout,     \* this.connectTimeout: 0, or the session whose timer it holds
    commandTimeout,     \* this.commandTimeout: 0, or the command whose timer it holds
    preventDataSending, \* this.preventDataSending
    promises,           \* the promise of each submitted command, by id
    settleLog,          \* ids of the commands in the order their promises settled
    sockets,            \* every socket created by net.connect, by index
    pendingWrites,      \* socket.write calls whose callback has not run yet
    written,            \* how many times each command's frame was written
    commandTimers,      \* armed command timers, counted by the command they were armed for
    connectTimers,      \* armed connect timers, by session
    rejectedCalls,      \* the promises made by Promise.reject: calls refused before sendCommand
    lastColor,          \* this.lastColor
    lastWW,             \* this.lastWW
    lastCW,             \* this.lastCW
    receivedFor,        \* history of receivedData, recorded in BufferSpec: for each of its
                        \* bytes, the command in flight when the byte arrived (0: none)
    conversion          \* a call of the helpers speedToDelay and delayToSpeed: the speed
                        \* given, and the numbers returned (<<>>: not called yet)

vars == <<options, commandQueue, socket, receivedData, receiveTimeout,
          connectTimeout, commandTimeout, preventDataSending, promises,
          settleLog, sockets, pendingWrites, written, commandTimers,
          connectTimers, rejectedCalls, lastColor, lastWW, lastCW,
          receivedFor, conversion>>

\* no call of the helpers' conversions is followed
NotConverted == [speed |-> 0, delay |-> <<>>, back |-> <<>>]

\* The current state as one record, and the step to a state given as a record.
Cur ==
    [options |-> options, commandQueue |-> commandQueue, socket |-> socket,
     receivedData |-> receivedData, receiveTimeout |-> receiveTimeout,
     connectTimeout |-> connectTimeout, commandTimeout |-> commandTimeout,
     preventDataSending |-> preventDataSending, promises |-> promises,
     settleLog |-> settleLog, sockets |-> sockets,
     pendingWrites |-> pendingWrites, written |-> written,
     commandTimers |-> commandTimers, connectTimers |-> connectTimers,
     rejectedCalls |-> rejectedCalls, lastColor |-> lastColor,
     lastWW |-> lastWW, lastCW |-> lastCW]

\* the command that is written and not settled, or 0
InFlightNow ==
    IF /\ commandQueue # <<>>
       /\ written[commandQueue[1].id] > 0
       /\ promises[commandQueue[1].id].state = "pending"
    THEN commandQueue[1].id
    ELSE 0

\* the history of the buffer over a step to the buffer buf: bytes that a
\* step appends arrived with the command in flight before the step
ReceivedForAfter(buf) ==
    IF ~receivedFor.recorded \/ buf = receivedData THEN receivedFor
    ELSE IF Len(buf) > Len(receivedData)
         THEN [receivedFor EXCEPT
                  !.by = @ \o [i \in 1..(Len(buf) - Len(receivedData)) |-> InFlightNow]]
         ELSE [receivedFor EXCEPT !.by = [i \in 1..Len(buf) |-> 0]]

Becomes(S) ==
    /\ receivedFor' = ReceivedForAfter(S.receivedData)
    /\ conversion' = conversion
    /\ options' = S.options
    /\ commandQueue' = S.commandQueue
    /\ socket' = S.socket
    /\ receivedData' = S.receivedData
    /\ receiveTimeout' = S.receiveTimeout
    /\ connectTimeout' = S.connectTimeout
    /\ commandTimeout' = S.commandTimeout
    /\ preventDataSending' = S.preventDataSending
    /\ promises' = S.promises
    /\ settleLog' = S.settleLog
    /\ sockets' = S.sockets
    /\ pendingWrites' = S.pendingWrites
    /\ written' = S.written
    /\ commandTimers' = S.commandTimers
    /\ connectTimers' = S.connectTimers
    /\ rejectedCalls' = S.rejectedCalls
    /\ lastColor' = S.lastColor
    /\ lastWW' = S.lastWW
    /\ lastCW' = S.lastCW

\* ------------------------------------------------------------ pure helpers
RECURSIVE SumBytes(_)
SumBytes(buf) == IF buf = <<>> THEN 0 ELSE Head(buf) + SumBytes(Tail(buf))

\* sendCommand's checksum: the sum of the frame's bytes, & 0xff
Checksum(buf) == SumBytes(buf) % 256

\* Control.ackMask(mask)
ackMask(mask) ==
    [power         |-> (mask % 2) = 1,
     color         |-> ((mask \div 2) % 2) = 1,
     pattern       |-> ((mask \div 4) % 2) = 1,
     customPattern |-> ((mask \div 8) % 2) = 1]

\* clamp of the helpers
clamp(value, min, max) ==
    LET lo == IF value > min THEN value ELSE min
    IN  IF lo < max THEN lo ELSE max

\* speedToDelay of the helpers, 30 - (speed / 100) * 30 + 1, in tenths (the
\* result has one decimal for an integer speed)
speedToDelay(speed) == 300 - 3 * clamp(speed, 0, 100) + 10

\* the byte that Buffer.from stores for a number given in tenths: its integer
\* part, modulo 256
ByteOfTenths(t) == (t \div 10) % 256

\* delayToSpeed of the helpers, 100 - ((delay - 1) / 30) * 100, in thirds
delayToSpeed(delay) == 300 - (clamp(delay, 1, 31) - 1) * 10

\* ----------------------------------------------- the numbers of the helpers
\* The helpers compute with JavaScript numbers, IEEE 754 doubles: every
\* operation gives the exact result rounded to 53 significant bits, to the
\* nearest, ties to even.  A number of the helpers (not negative, below 128)
\* is held exactly, as a count of units of 2^-UnitBits written as NumBits
\* bits, the lowest first.
UnitBits == 64
NumBits == 71
SignificandBits == 53

\* the natural number n as k bits, the lowest first
RECURSIVE BitsOf(_, _)
BitsOf(n, k) == IF k = 0 THEN <<>> ELSE <<n % 2>> \o BitsOf(n \div 2, k - 1)

\* the integer n of 0..127 as a number
NumberOf(n) == [i \in 1..UnitBits |-> 0] \o BitsOf(n, NumBits - UnitBits)

Reverse(a) == [i \in 1..Len(a) |-> a[Len(a) + 1 - i]]

\* exact sum, difference (a >= b) and product with a natural number c
RECURSIVE Plus(_, _, _)
Plus(a, b, carry) ==
    IF a = <<>> THEN <<>>
    ELSE LET t == Head(a) + Head(b) + carry
         IN  <<t % 2>> \o Plus(Tail(a), Tail(b), t \div 2)

RECURSIVE Minus(_, _, _)
Minus(a, b, borrow) ==
    IF a = <<>> THEN <<>>
    ELSE LET t == Head(a) - Head(b) - borrow
         IN  <<(t + 2) % 2>> \o Minus(Tail(a), Tail(b), IF t < 0 THEN 1 ELSE 0)

RECURSIVE Times(_, _, _)
Times(a, c, carry) ==
    IF a = <<>> THEN <<>>
    ELSE LET t == Head(a) * c + carry
         IN  <<t % 2>> \o Times(Tail(a), c, t \div 2)

\* the quotient by a natural number c, rounded down; the bits are taken and
\* given highest first
RECURSIVE Quotient(_, _, _)
Quotient(a, c, rem) ==
    IF a = <<>> THEN <<>>
    ELSE LET t == rem * 2 + Head(a)
         IN  <<t \div c>> \o Quotient(Tail(a), c, t % c)

\* a <= b: the highest bit in which they differ is set in b
LessEq(a, b) ==
    \A i \in 1..Len(a) :
        (a[i] > b[i]) => \E j \in (i + 1)..Len(a) : a[j] < b[j]

\* the position of the highest bit that is set, 0 if none is
Top(a) ==
    IF \E i \in 1..Len(a) : a[i] = 1
    THEN CHOOSE i \in 1..Len(a) : a[i] = 1 /\ \A j \in (i + 1)..Len(a) : a[j] = 0
    ELSE 0

\* The rounding of an exact result to a double: a with the bits below its 53
\* highest cleared, and one unit of the last place added when what is
\* cleared is more than half that unit, or half of it with the last place
\* odd.  sticky: the exact result is above a by less than one unit of 2^-UnitBits.
Round(a, sticky) ==
    LET drop == Top(a) - SignificandBits
    IN  IF drop <= 0 THEN a
        ELSE LET half == a[drop] = 1
                 rest == sticky \/ \E i \in 1..(drop - 1) : a[i] = 1
                 odd == a[drop + 1] = 1
                 kept == [i \in 1..Len(a) |-> IF i <= drop THEN 0 ELSE a[i]]
                 ulp == [i \in 1..Len(a) |-> IF i = drop + 1 THEN 1 ELSE 0]
             IN  IF half /\ (rest \/ odd) THEN Plus(kept, ulp, 0) ELSE kept

\* a + b, a - b (a >= b), a * c and a / c of doubles, c a natural number
Add(a, b) == Round(Plus(a, b, 0), FALSE)
Sub(a, b) == Round(Minus(a, b, 0), FALSE)
Mul(a, c) == Round(Times(a, c, 0), FALSE)
Div(a, c) ==
    LET q == Reverse(Quotient(Reverse(a), c, 0))
    IN  Round(q, Times(q, c, 0) # a)

\* clamp of the helpers, of numbers: Math.min(max, Math.max(min, value))
clampNumber(value, min, max) ==
    LET lo == IF LessEq(value, min) THEN min ELSE value
    IN  IF LessEq(max, lo) THEN max ELSE lo

speedToDelayNumber_withoutOffset(speed) ==
    Sub(NumberOf(30), Mul(Div(NumberOf(clamp(speed, 0, 100)), 100), 30))

\* speedToDelay of the helpers, of an integer speed, as the number it returns
speedToDelayNumber(speed) ==
    Add(Sub(NumberOf(30), Mul(Div(NumberOf(clamp(speed, 0, 100)), 100), 30)),
        NumberOf(1))

\* delayToSpeed of the helpers, of a number, as the number it returns
delayToSpeedNumber(delay) ==
    LET d == Sub(clampNumber(delay, NumberOf(1), NumberOf(31)), NumberOf(1))
    IN  Sub(NumberOf(100), Mul(Div(d, 30), 100))

\* Buffer.readUInt8(offset) and Buffer.readUInt16BE(offset): offsets from 0
readUInt8(resp, offset) == resp[offset + 1]
readUInt16BE(resp, offset) == resp[offset + 1] * 256 + resp[offset + 2]

\* determineMode reading the 16-bit code with the low byte first
determineMode_lowByteFirst(resp) ==
    IF \/ readUInt8(resp, 3) = 97
       \/ (readUInt8(resp, 3) = 0 /\ readUInt8(resp, 4) = 97)
    THEN "color"
    ELSE IF readUInt8(resp, 3) = 98 THEN "special"
    ELSE IF readUInt8(resp, 3) = 96 THEN "custom"
    ELSE IF readUInt8(resp, 3) >= 37 /\ readUInt8(resp, 3) <= 56 THEN "pattern"
    ELSE IF /\ readUInt8(resp, 3) + 256 * readUInt8(resp, 4) >= 100
            /\ readUInt8(resp, 3) + 256 * readUInt8(resp, 4) <= 399
         THEN "ia_pattern"
    ELSE "null"

\* determineMode of the helpers
determineMode(resp) ==
    IF \/ readUInt8(resp, 3) = 97
       \/ (readUInt8(resp, 3) = 0 /\ readUInt8(resp, 4) = 97)
    THEN "color"
    ELSE IF readUInt8(resp, 3) = 98 THEN "special"
    ELSE IF readUInt8(resp, 3) = 96 THEN "custom"
    ELSE IF readUInt8(resp, 3) >= 37 /\ readUInt8(resp, 3) <= 56 THEN "pattern"
    ELSE IF readUInt16BE(resp, 3) >= 100 /\ readUInt16BE(resp, 3) <= 399
         THEN "ia_pattern"
    ELSE "null"

\* determinePattern of the helpers: <<"name", n>>, <<"code", k>> or <<"null">>
determinePattern(resp) ==
    IF /\ readUInt8(resp, 3) >= 37 /\ readUInt8(resp, 3) <= 56
       /\ \E n \in DOMAIN patterns : patterns[n] = readUInt8(resp, 3)
    THEN <<"name", CHOOSE n \in DOMAIN patterns : patterns[n] = readUInt8(resp, 3)>>
    ELSE IF readUInt16BE(resp, 3) >= 100 /\ readUInt16BE(resp, 3) <= 399
         THEN <<"code", readUInt16BE(resp, 3) - 99>>
         ELSE <<"null">>

\* the result of queryState's continuation: the error it throws, or the
\* state it returns (speed in thirds)
queryStateResult(data) ==
    IF Len(data) < 14
    THEN [error |-> "Only got short reply"]
    ELSE [type |-> readUInt8(data, 1),
          on |-> readUInt8(data, 2) = 35,
          mode |-> determineMode(data),
          pattern |-> determinePattern(data),
          speed |-> IF determineMode(data) # "ia_pattern"
                    THEN delayToSpeed(readUInt8(data, 5))
                    ELSE 3 * readUInt8(data, 5),
          color |-> [red |-> readUInt8(data, 6), green |-> readUInt8(data, 7),
                     blue |-> readUInt8(data, 8)],
          warm_white |-> readUInt8(data, 9),
          cold_white |-> readUInt8(data, 11)]

\* queryState's continuation keeping the options of a controller of type 0x35 as
\* those of the types 0x25 and 0x44
queryStateThen_masksOnly(S, data) ==
    IF Len(data) < 14
    THEN S
    ELSE LET type == readUInt8(data, 1)
             S1 == [S EXCEPT !.lastColor = [red |-> readUInt8(data, 6),
                                            green |-> readUInt8(data, 7),
                                            blue |-> readUInt8(data, 8)],
                             !.lastWW = readUInt8(data, 9),
                             !.lastCW = readUInt8(data, 11)]
         IN  IF type \in {37, 53, 68}
             THEN [S1 EXCEPT !.options.applyMasks = TRUE]
             ELSE S1

\* queryState's continuation finding the type code in byte 3
queryStateThen_typeInByte3(S, data) ==
    IF Len(data) < 14
    THEN S
    ELSE LET type == readUInt8(data, 3)
             S1 == [S EXCEPT !.lastColor = [red |-> readUInt8(data, 6),
                                            green |-> readUInt8(data, 7),
                                            blue |-> readUInt8(data, 8)],
                             !.lastWW = readUInt8(data, 9),
                             !.lastCW = readUInt8(data, 11)]
         IN  CASE type = 37 -> [S1 EXCEPT !.options.applyMasks = TRUE]
               [] type = 53 -> [S1 EXCEPT !.options.applyMasks = TRUE,
                                          !.options.coldWhiteSupport = TRUE]
               [] type = 68 -> [S1 EXCEPT !.options.applyMasks = TRUE]
               [] OTHER -> S1

\* queryState's continuation: what it does to the instance
queryStateThen(S, data) ==
    IF Len(data) < 14
    THEN S
    ELSE LET type == readUInt8(data, 1)
             S1 == [S EXCEPT !.lastColor = [red |-> readUInt8(data, 6),
                                            green |-> readUInt8(data, 7),
                                            blue |-> readUInt8(data, 8)],
                             !.lastWW = readUInt8(data, 9),
                             !.lastCW = readUInt8(data, 11)]
         IN  CASE type = 37 -> [S1 EXCEPT !.options.applyMasks = TRUE]
               [] type = 53 -> [S1 EXCEPT !.options.applyMasks = TRUE,
                                          !.options.coldWhiteSupport = TRUE]
               [] type = 68 -> [S1 EXCEPT !.options.applyMasks = TRUE]
               [] OTHER -> S1

\* Array.prototype.shift: removes the first element, a no-op on an empty array
Shift(q) == IF q = <<>> THEN q ELSE Tail(q)

\* ------------------------------------------------------------ the promise
\* new Promise((resolve, reject) => ...): the first call of resolve or reject
\* settles the promise, every later call is ignored.
NewPromise(op) == [op |-> op, state |-> "pending", data |-> <<>>, err |-> "none"]

\* sendColorChangeCommand's continuation, on the promise p of the call:
\* the values sent are remembered when the result is true
sendColorChangeCommandThen(S, p, data) ==
    IF Len(data) > 0 \/ ~S.options.ack.color
    THEN [S EXCEPT !.lastColor = p.color, !.lastWW = p.ww, !.lastCW = p.cw]
    ELSE S

\* the continuation of queryState put on the promise of every operation
then_everyOperation(S, p, data) == queryStateThen(S, data)

\* the continuation that the operation has put on its promise p
then(S, p, data) ==
    IF p.op = "queryState" THEN queryStateThen(S, data)
    ELSE IF p.op = "sendColorChangeCommand" THEN sendColorChangeCommandThen(S, p, data)
    ELSE S

resolve(S, id, data) ==
    IF S.promises[id].state = "pending"
    THEN then([S EXCEPT !.promises[id].state = "resolved",
                        !.promises[id].data = data,
                        !.settleLog = Append(@, id)],
              S.promises[id], data)
    ELSE S

reject(S, id, err) ==
    IF S.promises[id].state = "pending"
    THEN [S EXCEPT !.promises[id].state = "rejected",
                   !.promises[id].err = err,
                   !.settleLog = Append(@, id)]
    ELSE S

\* the loop of socketErrorHandler over the queue
RECURSIVE RejectAll(_, _, _)
RejectAll(S, q, err) ==
    IF q = <<>> THEN S
    ELSE RejectAll(reject(S, Head(q).id, err), Tail(q), err)

\* ------------------------------------------------------------- the timers
\* clearTimeout(this.commandTimeout)
ClearCommandTimer(S) ==
    IF S.commandTimeout # 0 /\ S.commandTimers[S.commandTimeout] > 0
    THEN [S EXCEPT !.commandTimers[S.commandTimeout] = @ - 1]
    ELSE S

\* socket.end()
EndSocket(S) ==
    IF S.socket # 0
    THEN [S EXCEPT !.sockets[S.socket].ended = TRUE]
    ELSE S

\* -------------------------------------------------------------- handlers
\* handleNextCommand writing the last entry of the queue instead of the first
handleNextCommand_writesLast(S) ==
    IF Len(S.commandQueue) = 0
    THEN [EndSocket(S) EXCEPT !.socket = 0]
    ELSE LET cmd == S.commandQueue[Len(S.commandQueue)]
         IN  [S EXCEPT !.pendingWrites =
                           Append(@, [sock |-> S.socket, id |-> cmd.id,
                                      expectReply |-> cmd.expectReply]),
                       !.written[cmd.id] = @ + 1]

\* handleNextCommand dropping the socket of a drained queue without ending it
handleNextCommand_noEnd(S) ==
    IF Len(S.commandQueue) = 0
    THEN [S EXCEPT !.socket = 0]
    ELSE LET cmd == S.commandQueue[1]
         IN  [S EXCEPT !.pendingWrites =
                           Append(@, [sock |-> S.socket, id |-> cmd.id,
                                      expectReply |-> cmd.expectReply]),
                       !.written[cmd.id] = @ + 1]

\* handleNextCommand ending the socket of a drained queue but keeping the handle
handleNextCommand_keepsHandle(S) ==
    IF Len(S.commandQueue) = 0
    THEN EndSocket(S)
    ELSE LET cmd == S.commandQueue[1]
         IN  [S EXCEPT !.pendingWrites =
                           Append(@, [sock |-> S.socket, id |-> cmd.id,
                                      expectReply |-> cmd.expectReply]),
                       !.written[cmd.id] = @ + 1]

handleNextCommand(S) ==
    IF Len(S.commandQueue) = 0
    THEN [EndSocket(S) EXCEPT !.socket = 0]
    ELSE LET cmd == S.commandQueue[1]
         IN  [S EXCEPT !.pendingWrites =
                           Append(@, [sock |-> S.socket, id |-> cmd.id,
                                      expectReply |-> cmd.expectReply]),
                       !.written[cmd.id] = @ + 1]

\* receiveData finishing the last entry of the queue instead of the first
receiveData_resolvesLast(S, empty, data) ==
    LET S1 == IF S.commandTimeout # 0
              THEN [ClearCommandTimer(S) EXCEPT !.commandTimeout = 0]
              ELSE S
    IN  IF empty
        THEN LET S2 == IF Len(S1.commandQueue) > 0
                       THEN resolve(S1, S1.commandQueue[Len(S1.commandQueue)].id,
                                    S1.receivedData)
                       ELSE S1
                 S3 == [S2 EXCEPT !.receivedData = <<>>,
                                  !.commandQueue = Shift(@)]
             IN  handleNextCommand(S3)
        ELSE [S1 EXCEPT !.receivedData = @ \o data,
                        !.receiveTimeout = "armed"]

\* receiveData removing the finished command without resolving it
receiveData_noResolve(S, empty, data) ==
    LET S1 == IF S.commandTimeout # 0
              THEN [ClearCommandTimer(S) EXCEPT !.commandTimeout = 0]
              ELSE S
    IN  IF empty
        THEN handleNextCommand([S1 EXCEPT !.receivedData = <<>>,
                                          !.commandQueue = Shift(@)])
        ELSE [S1 EXCEPT !.receivedData = @ \o data,
                        !.receiveTimeout = "armed"]

\* receiveData finishing a command without going on to the next one
receiveData_noAdvance(S, empty, data) ==
    LET S1 == IF S.commandTimeout # 0
              THEN [ClearCommandTimer(S) EXCEPT !.commandTimeout = 0]
              ELSE S
    IN  IF empty
        THEN LET S2 == IF Len(S1.commandQueue) > 0
                       THEN resolve(S1, S1.commandQueue[1].id, S1.receivedData)
                       ELSE S1
             IN  [S2 EXCEPT !.receivedData = <<>>,
                            !.commandQueue = Shift(@)]
        ELSE [S1 EXCEPT !.receivedData = @ \o data,
                        !.receiveTimeout = "armed"]

receiveData(S, empty, data) ==
    LET S1 == IF S.commandTimeout # 0
              THEN [ClearCommandTimer(S) EXCEPT !.commandTimeout = 0]
              ELSE S
    IN  IF empty
        THEN LET S2 == IF Len(S1.commandQueue) > 0
                       THEN resolve(S1, S1.commandQueue[1].id, S1.receivedData)
                       ELSE S1
                 S3 == [S2 EXCEPT !.receivedData = <<>>,
                                  !.commandQueue = Shift(@)]
             IN  handleNextCommand(S3)
        ELSE [S1 EXCEPT !.receivedData = @ \o data,
                        !.receiveTimeout = "armed"]

\* handleCommandTimeout failing the whole queue, as a socket error does
handleCommandTimeout_failsAll(S) ==
    LET S1 == [S EXCEPT !.commandTimeout = 0]
        S2 == RejectAll(S1, S1.commandQueue, "Command timed out")
        S3 == [S2 EXCEPT !.receivedData = <<>>,
                         !.commandQueue = <<>>]
    IN  handleNextCommand(S3)

handleCommandTimeout(S) ==
    LET S1 == [S EXCEPT !.commandTimeout = 0]
        S2 == IF Len(S1.commandQueue) > 0
              THEN reject(S1, S1.commandQueue[1].id, "Command timed out")
              ELSE S1
        S3 == [S2 EXCEPT !.receivedData = <<>>,
                         !.commandQueue = Shift(@)]
    IN  handleNextCommand(S3)

\* socketErrorHandler rejecting only the command whose reject it was given
socketErrorHandler_firstOnly(S, err, rejectId) ==
    LET S1 == [S EXCEPT !.preventDataSending = TRUE]
        S2 == reject(S1, rejectId, err)
        S3 == [EndSocket(S2) EXCEPT !.socket = 0]
    IN  [S3 EXCEPT !.commandQueue = <<>>]

\* socketErrorHandler leaving the rejected commands in the queue
socketErrorHandler_keepsQueue(S, err, rejectId) ==
    LET S1 == [S EXCEPT !.preventDataSending = TRUE]
        S2 == reject(S1, rejectId, err)
        S3 == [EndSocket(S2) EXCEPT !.socket = 0]
    IN  RejectAll(S3, S3.commandQueue, err)

socketErrorHandler(S, err, rejectId) ==
    LET S1 == [S EXCEPT !.preventDataSending = TRUE]
        S2 == reject(S1, rejectId, err)
        S3 == [EndSocket(S2) EXCEPT !.socket = 0]
        S4 == RejectAll(S3, S3.commandQueue, err)
    IN  [S4 EXCEPT !.commandQueue = <<>>]

\* sendCommand calling net.connect on every call, also with a socket at hand
sendCommand_reconnects(S, buf, expectReply, id) ==
    LET command == Append(buf, Checksum(buf))
        entry == [id |-> id, expectReply |-> expectReply, command |-> command]
        s == Len(S.sockets) + 1
        S1 == [S EXCEPT !.commandQueue = Append(@, entry),
                        !.preventDataSending = FALSE,
                        !.socket = s,
                        !.sockets = Append(@, [state |-> "connecting",
                                               ended |-> FALSE,
                                               first |-> id])]
    IN  IF S.options.connectTimeoutLength # Undefined
        THEN [S1 EXCEPT !.connectTimeout = s,
                        !.connectTimers = @ \cup {s}]
        ELSE S1

\* sendCommand appending the sum without the & 0xff
sendCommand_sumUnmasked(S, buf, expectReply, id) ==
    LET command == Append(buf, SumBytes(buf))
        entry == [id |-> id, expectReply |-> expectReply, command |-> command]
    IN  IF Len(S.commandQueue) = 0 /\ S.socket = 0
        THEN LET s == Len(S.sockets) + 1
                 S1 == [S EXCEPT !.commandQueue = Append(@, entry),
                                 !.preventDataSending = FALSE,
                                 !.socket = s,
                                 !.sockets = Append(@, [state |-> "connecting",
                                                        ended |-> FALSE,
                                                        first |-> id])]
             IN  IF S.options.connectTimeoutLength # Undefined
                 THEN [S1 EXCEPT !.connectTimeout = s,
                                 !.connectTimers = @ \cup {s}]
                 ELSE S1
        ELSE [S EXCEPT !.commandQueue = Append(@, entry)]

sendCommand(S, buf, expectReply, id) ==
    LET command == Append(buf, Checksum(buf))
        entry == [id |-> id, expectReply |-> expectReply, command |-> command]
    IN  IF Len(S.commandQueue) = 0 /\ S.socket = 0
        THEN LET s == Len(S.sockets) + 1
                 S1 == [S EXCEPT !.commandQueue = Append(@, entry),
                                 !.preventDataSending = FALSE,
                                 !.socket = s,
                                 !.sockets = Append(@, [state |-> "connecting",
                                                        ended |-> FALSE,
                                                        first |-> id])]
             IN  IF S.options.connectTimeoutLength # Undefined
                 THEN [S1 EXCEPT !.connectTimeout = s,
                                 !.connectTimers = @ \cup {s}]
                 ELSE S1
        ELSE [S EXCEPT !.commandQueue = Append(@, entry)]

\* ------------------------------------------------------ public operations
\* the promise that the operation creates and hands to sendCommand
SubmitPromise(S, p, buf, expectReply) ==
    LET id == Len(S.promises) + 1
    IN  sendCommand([S EXCEPT !.promises = Append(@, p),
                              !.written = Append(@, 0),
                              !.commandTimers = Append(@, 0)],
                    buf, expectReply, id)

Submit(S, op, buf, expectReply) == SubmitPromise(S, NewPromise(op), buf, expectReply)

\* the promise of sendColorChangeCommand, whose continuation holds the
\* values of the call
ColorPromise(red, green, blue, ww, cw) ==
    [op |-> "sendColorChangeCommand", state |-> "pending", data |-> <<>>,
     err |-> "none", color |-> [red |-> red, green |-> green, blue |-> blue],
     ww |-> ww, cw |-> cw]

sendColorChangeCommand(S, red, green, blue, ww, cw, mask) ==
    LET r == clamp(red, 0, 255)
        g == clamp(green, 0, 255)
        b == clamp(blue, 0, 255)
        w == clamp(ww, 0, 255)
        c == IF S.options.coldWhiteSupport THEN clamp(cw, 0, 255) ELSE cw
        cmd_buf == IF S.options.coldWhiteSupport
                   THEN <<49, r, g, b, w, c, mask, 15>>
                   ELSE <<49, r, g, b, w, mask, 15>>
    IN  SubmitPromise(S, ColorPromise(r, g, b, w, c), cmd_buf, S.options.ack.color)

setColorAndWarmWhite(S, red, green, blue, ww) ==
    sendColorChangeCommand(S, red, green, blue, ww, S.lastCW, 0)

setColorAndWhites(S, red, green, blue, ww, cw) ==
    sendColorChangeCommand(S, red, green, blue, ww, cw, 0)

\* setColor sending the mask of the white channels
setColor_whiteMask(S, red, green, blue) ==
    IF S.options.applyMasks
    THEN sendColorChangeCommand(S, red, green, blue, 0, 0, 15)
    ELSE setColorAndWhites(S, red, green, blue, S.lastWW, S.lastCW)

setColor(S, red, green, blue) ==
    IF S.options.applyMasks
    THEN sendColorChangeCommand(S, red, green, blue, 0, 0, 240)
    ELSE setColorAndWhites(S, red, green, blue, S.lastWW, S.lastCW)

setWarmWhite(S, ww) ==
    IF S.options.applyMasks
    THEN sendColorChangeCommand(S, 0, 0, 0, ww, S.lastCW, 15)
    ELSE setColorAndWarmWhite(S, S.lastColor.red, S.lastColor.green,
                              S.lastColor.blue, ww)

setWhites(S, ww, cw) ==
    IF S.options.applyMasks
    THEN sendColorChangeCommand(S, 0, 0, 0, ww, cw, 15)
    ELSE setColorAndWhites(S, S.lastColor.red, S.lastColor.green,
                           S.lastColor.blue, ww, cw)

setPower(S, on) ==
    Submit(S, "setPower", <<113, IF on THEN 35 ELSE 36, 15>>, S.options.ack.power)

queryState(S) ==
    Submit(S, "queryState", <<129, 138, 139>>, TRUE)

\* Promise.reject(new Error(err)), returned by the operation op
PromiseReject(S, op, err) ==
    [S EXCEPT !.rejectedCalls = Append(@, [op |-> op, err |-> err])]

setPattern(S, pattern, speed) ==
    IF pattern \notin DOMAIN patterns
    THEN PromiseReject(S, "setPattern", "Invalid pattern")
    ELSE Submit(S, "setPattern",
                <<97, patterns[pattern], ByteOfTenths(speedToDelay(speed)), 15>>,
                S.options.ack.pattern)

\* setIAPattern taking 0 for a code
setIAPattern_fromZero(S, code, speed) ==
    IF code < 0 \/ code > 300
    THEN PromiseReject(S, "setIAPattern", "Invalid code")
    ELSE LET wire == code + 99
         IN  Submit(S, "setIAPattern",
                    <<97, wire \div 256, wire % 256, speed % 256, 15>>,
                    S.options.ack.pattern)

\* setIAPattern pushing the low byte of the code before the high byte
setIAPattern_lowByteFirst(S, code, speed) ==
    IF code < 1 \/ code > 300
    THEN PromiseReject(S, "setIAPattern", "Invalid code")
    ELSE LET wire == code + 99
         IN  Submit(S, "setIAPattern",
                    <<97, wire % 256, wire \div 256, speed % 256, 15>>,
                    S.options.ack.pattern)

setIAPattern(S, code, speed) ==
    IF code < 1 \/ code > 300
    THEN PromiseReject(S, "setIAPattern", "Invalid code")
    ELSE LET wire == code + 99
         IN  Submit(S, "setIAPattern",
                    <<97, wire \div 256, wire % 256, speed % 256, 15>>,
                    S.options.ack.pattern)

\* the four bytes of slot i (0..15) of a custom pattern
CustomSlot(pattern, i) ==
    IF i + 1 <= Len(pattern.colors)
    THEN <<pattern.colors[i + 1].red, pattern.colors[i + 1].green,
           pattern.colors[i + 1].blue, 0>>
    ELSE <<1, 2, 3, 0>>

RECURSIVE CustomSlots(_, _)
CustomSlots(pattern, i) ==
    IF i = 16 THEN <<>> ELSE CustomSlot(pattern, i) \o CustomSlots(pattern, i + 1)

\* the switch over pattern.transitionType: the byte it pushes, if any
TransitionByte(type) ==
    CASE type = "fade" -> <<58>>
      [] type = "jump" -> <<59>>
      [] type = "strobe" -> <<60>>
      [] OTHER -> <<>>

setCustomPattern(S, pattern, speed) ==
    IF ~pattern.customMode
    THEN PromiseReject(S, "setCustomPattern", "Invalid pattern")
    ELSE Submit(S, "setCustomPattern",
                <<81>> \o CustomSlots(pattern, 0)
                       \o <<ByteOfTenths(speedToDelay(speed))>>
                       \o TransitionByte(pattern.transitionType)
                       \o <<255, 15>>,
                S.options.ack.customPattern)

\* setPower's continuation: the boolean it makes of the data it is resolved with
setPowerResult(opts, data) == Len(data) > 0 \/ ~opts.ack.power

\* ------------------------------------------------------------ construction
\* the state that the constructor leaves, given the options it is called with
\* (applyMasks and coldWhiteSupport false unless the caller sets them)
Constructed(mask, commandTimeoutLength, connectTimeoutLength, applyMasks, coldWhiteSupport) ==
    [options |-> [ack |-> ackMask(mask),
                  applyMasks |-> applyMasks,
                  coldWhiteSupport |-> coldWhiteSupport,
                  commandTimeoutLength |-> commandTimeoutLength,
                  connectTimeoutLength |-> connectTimeoutLength],
     commandQueue |-> <<>>,
     socket |-> 0,
     receivedData |-> <<>>,
     receiveTimeout |-> "none",
     connectTimeout |-> 0,
     commandTimeout |-> 0,
     preventDataSending |-> FALSE,
     promises |-> <<>>,
     settleLog |-> <<>>,
     sockets |-> <<>>,
     pendingWrites |-> <<>>,
     written |-> <<>>,
     commandTimers |-> <<>>,
     connectTimers |-> {},
     rejectedCalls |-> <<>>,
     lastColor |-> [red |-> 0, green |-> 0, blue |-> 0],
     lastWW |-> 0,
     lastCW |-> 0]

\* the variables have the values of the record S
Is(S) ==
    /\ options = S.options
    /\ commandQueue = S.commandQueue
    /\ socket = S.socket
    /\ receivedData = S.receivedData
    /\ receiveTimeout = S.receiveTimeout
    /\ connectTimeout = S.connectTimeout
    /\ commandTimeout = S.commandTimeout
    /\ preventDataSending = S.preventDataSending
    /\ promises = S.promises
    /\ settleLog = S.settleLog
    /\ sockets = S.sockets
    /\ pendingWrites = S.pendingWrites
    /\ written = S.written
    /\ commandTimers = S.commandTimers
    /\ connectTimers = S.connectTimers
    /\ rejectedCalls = S.rejectedCalls
    /\ lastColor = S.lastColor
    /\ lastWW = S.lastWW
    /\ lastCW = S.lastCW

Init ==
    /\ \E o \in OptionInputs : Is(Constructed(o[1], o[2], o[3], FALSE, FALSE))
    /\ receivedFor = [recorded |-> FALSE, by |-> <<>>]
    /\ conversion = NotConverted

\* ------------------------------------------------------- callers' operations
\* a call is taken while the behaviour's operations last
CanSubmit == Len(promises) + Len(rejectedCalls) < MaxCommands

SetPower ==
    /\ CanSubmit
    /\ \E on \in PowerInputs : Becomes(setPower(Cur, on))

QueryState ==
    /\ CanSubmit
    /\ Becomes(queryState(Cur))

\* the pattern operations, called with given arguments
SetPatternOf(pattern, speed) ==
    /\ CanSubmit
    /\ Becomes(setPattern(Cur, pattern, speed))

SetIAPatternOf(code, speed) ==
    /\ CanSubmit
    /\ Becomes(setIAPattern(Cur, code, speed))

SetCustomPatternOf(pattern, speed) ==
    /\ CanSubmit
    /\ Becomes(setCustomPattern(Cur, pattern, speed))

\* the arguments that the operations test for
InvalidPatternInputs == PatternInputs \ DOMAIN patterns
InvalidIAPatternInputs == {code \in IAPatternInputs : code < 1 \/ code > 300}
InvalidCustomPatternInputs == {pattern \in CustomPatternInputs : ~pattern.customMode}

\* calls with such arguments, at any moment of a session
SetPatternInvalid ==
    \E pattern \in InvalidPatternInputs, speed \in SpeedInputs :
        SetPatternOf(pattern, speed)

SetIAPatternInvalid ==
    \E code \in InvalidIAPatternInputs, speed \in SpeedInputs :
        SetIAPatternOf(code, speed)

SetCustomPatternInvalid ==
    \E pattern \in InvalidCustomPatternInputs, speed \in SpeedInputs :
        SetCustomPatternOf(pattern, speed)

\* ------------------------------------------------------- events of a socket
Live(s) == sockets[s].state \in {"connecting", "connected"}

\* the callback given to net.connect
connectCallback(S) ==
    LET S1 == IF S.connectTimeout # 0
              THEN [S EXCEPT !.connectTimers = @ \ {S.connectTimeout},
                             !.connectTimeout = 0]
              ELSE S
    IN  IF ~S1.preventDataSending THEN handleNextCommand(S1) ELSE S1

SocketConnectOn(s) ==
    /\ sockets[s].state = "connecting"
    /\ Becomes(connectCallback([Cur EXCEPT !.sockets[s].state = "connected"]))

SocketConnect == \E s \in DOMAIN sockets : SocketConnectOn(s)

\* the 'error' listener; an emitted error destroys the socket
SocketErrorOn(s, err) ==
    /\ Live(s)
    /\ Becomes(socketErrorHandler([Cur EXCEPT !.sockets[s].state = "closed"],
                                  err, sockets[s].first))

SocketError == \E s \in DOMAIN sockets, err \in SocketErrors : SocketErrorOn(s, err)

\* the 'data' listener, given the chunk data
SocketDataOf(data) ==
    \E s \in DOMAIN sockets :
        /\ sockets[s].state = "connected"
        /\ Len(receivedData) + Len(data) <= MaxReceived * Len(data)
        /\ Becomes(receiveData(Cur, FALSE, data))

SocketData == \E data \in DataChunks : SocketDataOf(data)

\* the callback of a socket.write: writes of one socket complete in order,
\* once the socket is connected (or destroyed: the callback then gets an error,
\* which the callbacks ignore)
RemoveAt(q, i) == SubSeq(q, 1, i - 1) \o SubSeq(q, i + 1, Len(q))

\* the write callback of a command without reply arming the timer as well
writeCallback_alwaysWaits(S, w) ==
    IF S.options.commandTimeoutLength = Undefined
    THEN S
    ELSE [S EXCEPT !.commandTimeout = w.id,
                   !.commandTimers[w.id] = @ + 1]

\* the write callback arming no timer although a duration is configured
writeCallback_neverArms(S, w) ==
    IF ~w.expectReply
    THEN receiveData(S, TRUE, <<>>)
    ELSE S

writeCallback(S, w) ==
    IF ~w.expectReply
    THEN receiveData(S, TRUE, <<>>)
    ELSE IF S.options.commandTimeoutLength = Undefined
         THEN S
         ELSE [S EXCEPT !.commandTimeout = w.id,
                        !.commandTimers[w.id] = @ + 1]

WriteCompletesAt(i) ==
    /\ \A j \in 1..(i - 1) : pendingWrites[j].sock # pendingWrites[i].sock
    /\ sockets[pendingWrites[i].sock].state \in {"connected", "closed"}
    /\ Becomes(writeCallback([Cur EXCEPT !.pendingWrites = RemoveAt(@, i)],
                             pendingWrites[i]))

WriteCompletes == \E i \in DOMAIN pendingWrites : WriteCompletesAt(i)

\* ------------------------------------------------------------------ timers
ReceiveTimeoutFires ==
    /\ receiveTimeout = "armed"
    /\ Becomes(receiveData([Cur EXCEPT !.receiveTimeout = "none"], TRUE, <<>>))

CommandTimeoutFiresFor(id) ==
    /\ commandTimers[id] > 0
    /\ Becomes(handleCommandTimeout([Cur EXCEPT !.commandTimers[id] = @ - 1]))

CommandTimeoutFires == \E id \in DOMAIN commandTimers : CommandTimeoutFiresFor(id)

ConnectTimeoutFiresFor(s) ==
    /\ s \in connectTimers
    /\ Becomes(socketErrorHandler([Cur EXCEPT !.connectTimers = @ \ {s}],
                                  "Connection timeout reached", sockets[s].first))

ConnectTimeoutFires == \E s \in DOMAIN sockets : ConnectTimeoutFiresFor(s)

Next ==
    \/ SetPower
    \/ QueryState
    \/ SetPatternInvalid
    \/ SetIAPatternInvalid
    \/ SetCustomPatternInvalid
    \/ SocketConnect
    \/ SocketError
    \/ SocketData
    \/ WriteCompletes
    \/ ReceiveTimeoutFires
    \/ CommandTimeoutFires
    \/ ConnectTimeoutFires

Spec == Init /\ [][Next]_vars

\* the same instance with the history of its receive buffer recorded
BufferInit ==
    /\ \E o \in OptionInputs : Is(Constructed(o[1], o[2], o[3], FALSE, FALSE))
    /\ receivedFor = [recorded |-> TRUE, by |-> <<>>]
    /\ conversion = NotConverted

BufferSpec == BufferInit /\ [][Next]_vars

\* ------------------------------------------------- a controller that replies
\* a byte
Byte == 0..255

\* A reply to a query, of 14 bytes: 0x81, the type code, the power flag, the
\* two bytes of the mode, the delay, red, green, blue, warm white, a version,
\* cold white, one more byte and the checksum.
ReplyOf(type, byte3, byte4) ==
    LET body == <<129, type, 35, byte3, byte4, 16, 255, 128, 0, 64, 4, 32, 0>>
    IN  Append(body, Checksum(body))

\* The instance with a controller of type 0x35 that sends whole replies of
\* 14 bytes, to queries and to set commands alike.
ReplyChunks == {ReplyOf(53, 97, 0)}

SocketReply == \E data \in ReplyChunks : SocketDataOf(data)

QueryNext ==
    \/ SetPower
    \/ QueryState
    \/ SocketConnect
    \/ SocketError
    \/ SocketReply
    \/ WriteCompletes
    \/ ReceiveTimeoutFires
    \/ CommandTimeoutFires
    \/ ConnectTimeoutFires

QuerySpec == Init /\ [][QueryNext]_vars

\* The instances that decode and the replies they are given, as (applyMasks
\* and coldWhiteSupport given to the constructor, reply): every type code in
\* (of bytes) in a reply of mode 0x35 on an instance of every setting of the two flags and
\* in a reply of mode 0x61 on an instance with both flags false; every pair
\* of mode bytes in a reply of a type that has no quirk; and a reply of type
\* 0x35 that lacks its last byte.
DecodeInputs(bytes) ==
    {<<a, c, ReplyOf(type, 53, 33)>> : a \in BOOLEAN, c \in BOOLEAN, type \in bytes}
    \cup {<<FALSE, FALSE, ReplyOf(type, 97, 0)>> : type \in bytes}
    \cup {<<FALSE, FALSE, ReplyOf(51, byte3, byte4)>> : byte3 \in bytes, byte4 \in bytes}
    \cup {<<FALSE, FALSE, SubSeq(ReplyOf(53, 97, 0), 1, 13)>>}

\* The instance that has sent a query on a fresh connection and has been
\* given the reply by the 'data' listener: queryState, the connect callback,
\* the write callback, receiveData(false, reply).
Queried(applyMasks, coldWhiteSupport, reply) ==
    LET S1 == queryState(Constructed(15, DefaultCommandTimeoutLength, Undefined,
                                     applyMasks, coldWhiteSupport))
        S2 == connectCallback([S1 EXCEPT !.sockets[1].state = "connected"])
        S3 == writeCallback([S2 EXCEPT !.pendingWrites = <<>>], S2.pendingWrites[1])
    IN  receiveData(S3, FALSE, reply)

DecodeInit ==
    \E in \in DecodeInputs(Byte) :
        /\ Is(Queried(in[1], in[2], in[3]))
        /\ receivedFor = [recorded |-> FALSE, by |-> <<>>]
        /\ conversion = NotConverted

\* the inter-byte timer ends the reply: the query is resolved and decoded
DecodeNext == ReceiveTimeoutFires

DecodeSpec == DecodeInit /\ [][DecodeNext]_vars

\* ------------------------------------------------- the frames that are queued
\* The operations that build a frame, called with every argument of the
\* inputs on an instance whose connection is being established: what each
\* call puts into the queue.
SendCommandOf(buf) ==
    /\ CanSubmit
    /\ Becomes(Submit(Cur, "sendCommand", buf, TRUE))

SendCommand == \E buf \in FrameInputs : SendCommandOf(buf)

SetPattern ==
    \E pattern \in PatternInputs, speed \in SpeedInputs : SetPatternOf(pattern, speed)

SetIAPattern ==
    \E code \in IAPatternInputs, speed \in SpeedInputs : SetIAPatternOf(code, speed)

SetCustomPattern ==
    \E pattern \in CustomPatternInputs, speed \in SpeedInputs :
        SetCustomPatternOf(pattern, speed)

EncodeNext ==
    \/ SendCommand
    \/ SetPattern
    \/ SetIAPattern
    \/ SetCustomPattern

EncodeSpec == Init /\ [][EncodeNext]_vars

\* ------------------------------------------------- the colour operations
SetColorOf(red, green, blue) ==
    /\ CanSubmit
    /\ Becomes(setColor(Cur, red, green, blue))

SetWarmWhiteOf(ww) ==
    /\ CanSubmit
    /\ Becomes(setWarmWhite(Cur, ww))

SetWhitesOf(ww, cw) ==
    /\ CanSubmit
    /\ Becomes(setWhites(Cur, ww, cw))

SetColorAndWarmWhiteOf(red, green, blue, ww) ==
    /\ CanSubmit
    /\ Becomes(setColorAndWarmWhite(Cur, red, green, blue, ww))

SetColorAndWhitesOf(red, green, blue, ww, cw) ==
    /\ CanSubmit
    /\ Becomes(setColorAndWhites(Cur, red, green, blue, ww, cw))

SetColor == \E c \in ColorInputs : SetColorOf(c[1], c[2], c[3])

SetWarmWhite == \E ww \in WarmWhiteInputs : SetWarmWhiteOf(ww)

SetWhites == \E ww \in WarmWhiteInputs, cw \in ColdWhiteInputs : SetWhitesOf(ww, cw)

SetColorAndWarmWhite ==
    \E c \in ColorInputs, ww \in WarmWhiteInputs :
        SetColorAndWarmWhiteOf(c[1], c[2], c[3], ww)

SetColorAndWhites ==
    \E c \in ColorInputs, ww \in WarmWhiteInputs, cw \in ColdWhiteInputs :
        SetColorAndWhitesOf(c[1], c[2], c[3], ww, cw)

\* The instance that has decoded the reply to a query and is idle again:
\* the inter-byte timer has ended the reply.
Decoded(applyMasks, coldWhiteSupport, reply) ==
    receiveData([Queried(applyMasks, coldWhiteSupport, reply)
                     EXCEPT !.receiveTimeout = "none"], TRUE, <<>>)

\* The frames of the colour operations: the operations called on instances
\* constructed with every setting of applyMasks and coldWhiteSupport, and on
\* one that has set both itself on the reply of a controller of type 0x35.
ColorFrameInit ==
    /\ \/ \E a \in BOOLEAN, c \in BOOLEAN :
              Is(Constructed(15, DefaultCommandTimeoutLength, Undefined, a, c))
       \/ Is(Decoded(FALSE, FALSE, ReplyOf(53, 97, 0)))
    /\ receivedFor = [recorded |-> FALSE, by |-> <<>>]
    /\ conversion = NotConverted

ColorFrameNext ==
    \/ SetColor
    \/ SetWarmWhite
    \/ SetWhites
    \/ SetColorAndWarmWhite
    \/ SetColorAndWhites

ColorFrameSpec == ColorFrameInit /\ [][ColorFrameNext]_vars

\* The instance whose callers set the colour and the warm white, masks not
\* applied, with the acknowledgement of colour commands on and off.
ColorInit ==
    /\ \E mask \in {15, 0} :
          Is(Constructed(mask, DefaultCommandTimeoutLength, Undefined, FALSE, FALSE))
    /\ receivedFor = [recorded |-> FALSE, by |-> <<>>]
    /\ conversion = NotConverted

ColorNext ==
    \/ SetColor
    \/ SetWarmWhite
    \/ SocketConnect
    \/ SocketError
    \/ SocketData
    \/ WriteCompletes
    \/ ReceiveTimeoutFires
    \/ CommandTimeoutFires

ColorSpec == ColorInit /\ [][ColorNext]_vars

\* ------------------------------------------------- the extended patterns
\* every code that setIAPattern takes
IAPatternCodes == 1..300

\* setIAPattern called with each of them, as the first call on an instance
SetIAPatternFirst ==
    \E code \in IAPatternCodes, speed \in SpeedInputs :
        /\ promises = <<>>
        /\ SetIAPatternOf(code, speed)

IAPatternNext == SetIAPatternFirst

IAPatternSpec == Init /\ [][IAPatternNext]_vars

\* ------------------------------------------- the command timeout's settings
\* The options given at construction with every setting of the command
\* timeout: a duration, undefined, and null; every command expects a reply.
TimeoutOptionInputs ==
    { <<15, DefaultCommandTimeoutLength, Undefined>>,
      <<15, Undefined,                   Undefined>>,
      <<15, Null,                        Undefined>> }

TimeoutInit ==
    /\ \E o \in TimeoutOptionInputs : Is(Constructed(o[1], o[2], o[3], FALSE, FALSE))
    /\ receivedFor = [recorded |-> FALSE, by |-> <<>>]
    /\ conversion = NotConverted

TimeoutNext ==
    \/ SetPower
    \/ SocketConnect
    \/ SocketError
    \/ SocketData
    \/ WriteCompletes
    \/ ReceiveTimeoutFires
    \/ CommandTimeoutFires

TimeoutSpec == TimeoutInit /\ [][TimeoutNext]_vars

\* ------------------------------------------------ the helpers' conversions
\* speedToDelay is called with an integer speed, in and around [0, 100], and
\* delayToSpeed with the number that it returned.
ConvertSpeeds == (0 - 3)..103

ControlUnchanged ==
    UNCHANGED <<options, commandQueue, socket, receivedData, receiveTimeout,
                connectTimeout, commandTimeout, preventDataSending, promises,
                settleLog, sockets, pendingWrites, written, commandTimers,
                connectTimers, rejectedCalls, lastColor, lastWW, lastCW,
                receivedFor>>

ConvertInit ==
    /\ Is(Constructed(Undefined, DefaultCommandTimeoutLength, Undefined, FALSE, FALSE))
    /\ receivedFor = [recorded |-> FALSE, by |-> <<>>]
    /\ \E s \in ConvertSpeeds : conversion = [NotConverted EXCEPT !.speed = s]

SpeedToDelay ==
    /\ conversion.delay = <<>>
    /\ conversion' = [conversion EXCEPT !.delay = speedToDelayNumber(conversion.speed)]
    /\ ControlUnchanged

DelayToSpeed ==
    /\ conversion.delay # <<>>
    /\ conversion.back = <<>>
    /\ conversion' = [conversion EXCEPT !.back = delayToSpeedNumber(conversion.delay)]
    /\ ControlUnchanged

ConvertNext ==
    \/ SpeedToDelay
    \/ DelayToSpeed

ConvertSpec == ConvertInit /\ [][ConvertNext]_vars

\* The runtime's guarantees: a connection attempt ends (the callback of
\* net.connect runs or the socket emits an error), a write's callback runs,
\* an armed timer fires.
ConnectAttemptEnds(s) ==
    /\ s \in DOMAIN sockets
    /\ sockets[s].state = "connecting"
    /\ (SocketConnectOn(s) \/ \E err \in SocketErrors : SocketErrorOn(s, err))

Fairness ==
    /\ \A s \in 1..MaxCommands : WF_vars(ConnectAttemptEnds(s))
    /\ WF_vars(WriteCompletes)
    /\ WF_vars(ReceiveTimeoutFires)
    /\ WF_vars(CommandTimeoutFires)
    /\ WF_vars(ConnectTimeoutFires)

FairSpec == Spec /\ Fairness

\* ---------------------------------------------------------------- notions
Commands == DOMAIN promises
Pending(c) == promises[c].state = "pending"
Settled(c) == promises[c].state # "pending"
QueueIds == {commandQueue[i].id : i \in DOMAIN commandQueue}
\* written to the socket and not settled yet
InFlight(c) == written[c] > 0 /\ Pending(c)
\* created by net.connect, neither ended by the instance nor destroyed by an error
Open(s) == sockets[s].state \in {"connecting", "connected"} /\ ~sockets[s].ended
Idle == commandQueue = <<>> /\ socket = 0
\* the states of the manager with a socket: requested, established
Connecting == socket # 0 /\ sockets[socket].state = "connecting"
Active == socket # 0 /\ sockets[socket].state = "connected"

\* the session of a command: the last socket created by the time of its submission
SessionOf(c) ==
    CHOOSE s \in DOMAIN sockets :
        /\ sockets[s].first <= c
        /\ \A t \in DOMAIN sockets : sockets[t].first <= c => t <= s
\* the step settles the command c
Settles(c) == Pending(c) /\ Settled(c)'

\* ------------------------------------------------------------------ claims

\* C1: the commands of one instance settle in the order of their submission:
\* ids are given in submission order, and the k-th promise to settle is the
\* one of command k, so no command settles before an earlier one.
C1_SettleInSubmissionOrder ==
    \A k \in DOMAIN settleLog : settleLog[k] = k

\* C1 witness: the first command was resolved, the second rejected, in this order.
C1_Witness ==
    /\ settleLog = <<1, 2>>
    /\ promises[1].state = "resolved"
    /\ promises[2].state = "rejected"

\* every command in flight is the head of the queue
C2_InFlightIsHead ==
    \A c \in Commands : InFlight(c) => commandQueue # <<>> /\ commandQueue[1].id = c

\* C2: in every state a command in flight is the head of the queue (so at
\* most one is in flight), and a step that writes a frame writes the frame
\* of the head.
C2_OnlyHeadInFlight ==
    /\ C2_InFlightIsHead
    /\ [][ /\ C2_InFlightIsHead'
           /\ \A c \in Commands :
                 written'[c] > written[c] =>
                     commandQueue' # <<>> /\ commandQueue'[1].id = c ]_vars

\* C2 witness: a command is in flight while another one waits behind it.
C2_Witness ==
    /\ Len(commandQueue) = 2
    /\ InFlight(commandQueue[1].id)
    /\ written[commandQueue[2].id] = 0

\* an open socket is the one this.socket holds
C3_OpenIsCurrent ==
    \A s \in DOMAIN sockets : Open(s) => socket = s

C4_SocketErrorFailsAll ==
    [][ /\ \A s \in DOMAIN sockets, err \in SocketErrors :
              SocketErrorOn(s, err) =>
                  /\ \A c \in QueueIds : /\ promises'[c].state = "rejected"
                                         /\ promises'[c].err = err
                  /\ commandQueue' = <<>>
                  /\ socket' = 0
                  /\ \A x \in DOMAIN sockets : ~Open(x)'
        /\ (Idle /\ Len(promises') = Len(promises)) => Idle'
        /\ (Idle /\ Len(promises') > Len(promises)) =>
              /\ Len(sockets') = Len(sockets) + 1
              /\ socket' = Len(sockets')
              /\ sockets'[socket'].state = "connecting"
              /\ Len(commandQueue') = 1 ]_vars

\* C4 witness: a socket error rejected the command in flight, and the next
\* command was submitted on a new connection.
C4_Witness ==
    /\ Len(promises) = 2
    /\ written[1] > 0
    /\ promises[1].state = "rejected"
    /\ promises[1].err \in SocketErrors
    /\ QueueIds = {2}
    /\ socket = 2
    /\ sockets[2].state = "connecting"

\* C5: a command timeout that finds a command at the head rejects that one
\* with the timeout error and nothing else: the buffer is cleared, the head
\* removed, the promises of all other commands are untouched, the rest of the
\* queue keeps its order and its new head is written.
C5_TimeoutFailsOnlyHead ==
    [][ \A id \in DOMAIN commandTimers :
            (CommandTimeoutFiresFor(id) /\ commandQueue # <<>>) =>
                LET h == commandQueue[1].id
                IN  /\ promises'[h].state = "rejected"
                    /\ promises'[h].err = "Command timed out"
                    /\ receivedData' = <<>>
                    /\ commandQueue' = Tail(commandQueue)
                    /\ \A c \in Commands \ {h} : promises'[c] = promises[c]
                    /\ \A c \in Commands \ {h} :
                          written'[c] = written[c] +
                              (IF commandQueue' # <<>> /\ commandQueue'[1].id = c
                               THEN 1 ELSE 0) ]_vars

\* C5 witness: the first command timed out, the second one was dispatched
\* after it and then resolved with the controller's reply.
C5_Witness ==
    /\ Len(promises) = 2
    /\ promises[1].err = "Command timed out"
    /\ written[2] = 1
    /\ promises[2].state = "resolved"
    /\ promises[2].data # <<>>

\* C6: when the write of a command without reply completes and the command
\* is not settled yet, that step resolves it, with a result of true, removes
\* it from the head and writes the next command (or ends the socket).
C6_NoReplyResolvesOnWrite ==
    [][ \A i \in DOMAIN pendingWrites :
            ( /\ WriteCompletesAt(i)
              /\ ~pendingWrites[i].expectReply
              /\ Pending(pendingWrites[i].id) ) =>
                LET c == pendingWrites[i].id
                IN  /\ promises'[c].state = "resolved"
                    /\ promises'[c].op = "setPower"
                    /\ setPowerResult(options', promises'[c].data)
                    /\ commandQueue # <<>> /\ commandQueue[1].id = c
                    /\ commandQueue' = Tail(commandQueue)
                    /\ IF commandQueue' = <<>>
                       THEN socket' = 0
                       ELSE written'[commandQueue'[1].id] =
                                written[commandQueue'[1].id] + 1 ]_vars

\* C6 witness: two commands without reply were resolved one after the other,
\* the first with no bytes, the second with bytes that the controller sent.
C6_Witness ==
    /\ ~options.ack.power
    /\ settleLog = <<1, 2>>
    /\ promises[1].op = "setPower" /\ promises[1].state = "resolved"
    /\ promises[1].data = <<>>
    /\ promises[2].op = "setPower" /\ promises[2].state = "resolved"
    /\ promises[2].data # <<>>
    /\ Len(sockets) = 1

\* C7: a command is pending exactly while it is in the queue, it is in the
\* queue once, and it is settled once: its id is in settleLog once when it is
\* settled and not at all while it is pending.
C7_SettledExactlyOnce ==
    /\ \A c \in Commands :
          /\ Pending(c) <=> c \in QueueIds
          /\ Cardinality({i \in DOMAIN settleLog : settleLog[i] = c})
                = (IF Settled(c) THEN 1 ELSE 0)
    /\ Cardinality(QueueIds) = Len(commandQueue)

\* C7 witness: the first command of a session was resolved, and a socket
\* error of the same session (whose handler holds that command's reject)
\* then rejected the second command.
C7_Witness ==
    /\ Len(sockets) = 1
    /\ sockets[1].state = "closed"
    /\ settleLog = <<1, 2>>
    /\ promises[1].state = "resolved"
    /\ promises[2].state = "rejected"
    /\ promises[2].err \in SocketErrors

\* C8: with a command timeout configured, every submitted command is
\* eventually settled.
C8_EverySubmittedSettles ==
    \A c \in 1..MaxCommands :
        (options.commandTimeoutLength # Undefined /\ c \in Commands /\ Pending(c))
            ~> (c \in Commands /\ Settled(c))

\* C8 witness: every command of the behaviour is settled, one of them by
\* its command timeout.
C8_Witness ==
    /\ options.commandTimeoutLength # Undefined
    /\ Len(promises) = MaxCommands
    /\ \A c \in Commands : Settled(c)
    /\ \E c \in Commands : promises[c].err = "Command timed out"

\* C9: a connect timeout that fires rejects every queued command with the
\* connect-timeout error, empties the queue and discards the socket; and a
\* settled command is never written again, whatever happens later.
C9_ConnectTimeoutFailsAll ==
    [][ /\ \A s \in DOMAIN sockets :
              ConnectTimeoutFiresFor(s) =>
                  /\ \A c \in QueueIds :
                        /\ promises'[c].state = "rejected"
                        /\ promises'[c].err = "Connection timeout reached"
                  /\ commandQueue' = <<>>
                  /\ socket' = 0
                  /\ \A x \in DOMAIN sockets : ~Open(x)'
                  /\ pendingWrites' = pendingWrites
        /\ \A c \in Commands : Settled(c) => written'[c] = written[c] ]_vars

\* C9 witness: the connect timeout rejected two commands that were never
\* written, and the discarded socket connected afterwards.
C9_Witness ==
    /\ Len(promises) = 2
    /\ \A c \in Commands : /\ promises[c].err = "Connection timeout reached"
                           /\ written[c] = 0
    /\ Len(sockets) = 1
    /\ sockets[1].state = "connected"

\* the instance holds a socket exactly when its queue is not empty
C10_SocketIffQueue == (socket # 0) <=> (commandQueue # <<>>)

\* C10: between handlers the instance holds a socket exactly when its queue
\* is not empty; a connection is created by the enqueue into an empty queue,
\* and the step that empties the queue ends the socket and drops the handle.
C10_SocketWhileQueued ==
    /\ C10_SocketIffQueue
    /\ [][ /\ C10_SocketIffQueue'
           /\ Len(sockets') > Len(sockets) =>
                 /\ commandQueue = <<>>
                 /\ Len(commandQueue') = 1
                 /\ socket' = Len(sockets')
           /\ (commandQueue # <<>> /\ commandQueue' = <<>>) =>
                 /\ socket' = 0
                 /\ \A s \in DOMAIN sockets : s = socket => ~Open(s)' ]_vars

\* C10 witness: idle again after a session whose queue drained.
C10_Witness ==
    /\ Idle
    /\ Len(sockets) = 1
    /\ sockets[1].ended
    /\ sockets[1].state = "connected"
    /\ Len(settleLog) = 2

\* C11: a step in which a command finishes (resolved or rejected) leaves the
\* receive buffer empty, and the bytes a command is resolved with are bytes
\* that arrived while that command was the one in flight.
C11_BufferOfOneCommand ==
    [][ \A c \in Commands :
            /\ (Pending(c) /\ Settled(c)') => receivedData' = <<>>
            /\ (Pending(c) /\ promises'[c].state = "resolved") =>
                  /\ promises'[c].data = receivedData
                  /\ \A i \in DOMAIN receivedFor.by : receivedFor.by[i] = c ]_vars

\* C12: a submission made while the manager is Connecting or Active appends
\* the command to the tail of the queue and changes nothing else: the socket,
\* the buffer, the timers, the pending writes, the command in flight and the
\* other commands stay as they are, no connection is opened, nothing is written.
C12_SubmitOnlyAppends ==
    [][ (Len(promises') > Len(promises) /\ (Connecting \/ Active)) =>
            /\ Len(commandQueue') = Len(commandQueue) + 1
            /\ SubSeq(commandQueue', 1, Len(commandQueue)) = commandQueue
            /\ commandQueue'[Len(commandQueue')].id = Len(promises')
            /\ socket' = socket
            /\ sockets' = sockets
            /\ receivedData' = receivedData
            /\ receiveTimeout' = receiveTimeout
            /\ commandTimeout' = commandTimeout
            /\ connectTimeout' = connectTimeout
            /\ commandTimers' = Append(commandTimers, 0)
            /\ connectTimers' = connectTimers
            /\ pendingWrites' = pendingWrites
            /\ written' = Append(written, 0)
            /\ InFlightNow' = InFlightNow
            /\ preventDataSending' = preventDataSending
            /\ options' = options
            /\ \A c \in Commands : promises'[c] = promises[c] ]_vars

\* C12 witness: a second command waits in the queue of a session whose first
\* command is in flight with its command timer armed.
C12_Witness ==
    /\ Len(sockets) = 1
    /\ Active
    /\ Len(commandQueue) = 2
    /\ InFlightNow = 1
    /\ commandTimers[1] > 0
    /\ written[2] = 0

\* what a call that is refused leaves alone: the queue, the socket and the
\* sockets made so far, the buffer, the timers, the writes, the promises of
\* the submitted commands, the options
C13_ManagerUnchanged ==
    UNCHANGED <<options, commandQueue, socket, sockets, receivedData,
                receiveTimeout, connectTimeout, commandTimeout, commandTimers,
                connectTimers, pendingWrites, written, promises, settleLog,
                preventDataSending>>

\* C13: setPattern with a name that is not in the table, setIAPattern with a
\* code outside 1..300 and setCustomPattern with an object that is not a
\* CustomMode return a rejected promise, and the step changes nothing of the
\* instance: no entry is queued, no connection opened, no timer touched.
C13_ValidationTouchesNothing ==
    [][ /\ \A pattern \in InvalidPatternInputs, speed \in SpeedInputs :
              SetPatternOf(pattern, speed) =>
                  /\ rejectedCalls' = Append(rejectedCalls,
                         [op |-> "setPattern", err |-> "Invalid pattern"])
                  /\ C13_ManagerUnchanged
        /\ \A code \in InvalidIAPatternInputs, speed \in SpeedInputs :
              SetIAPatternOf(code, speed) =>
                  /\ rejectedCalls' = Append(rejectedCalls,
                         [op |-> "setIAPattern", err |-> "Invalid code"])
                  /\ C13_ManagerUnchanged
        /\ \A pattern \in InvalidCustomPatternInputs, speed \in SpeedInputs :
              SetCustomPatternOf(pattern, speed) =>
                  /\ rejectedCalls' = Append(rejectedCalls,
                         [op |-> "setCustomPattern", err |-> "Invalid pattern"])
                  /\ C13_ManagerUnchanged
        /\ Len(rejectedCalls') > Len(rejectedCalls) => C13_ManagerUnchanged ]_vars

\* C13 witness: a call was refused in a session whose command is in flight
\* with its timer armed.
C13_Witness ==
    /\ Len(rejectedCalls) = 1
    /\ rejectedCalls[1].op = "setIAPattern"
    /\ Active
    /\ InFlightNow = 1
    /\ commandTimers[1] > 0

\* the frame that a step has appended to the queue, without its checksum
C14_Enqueued ==
    SubSeq(commandQueue'[Len(commandQueue')].command, 1,
           Len(commandQueue'[Len(commandQueue')].command) - 1)

\* C14: setCustomPattern with a transition type other than fade, jump and
\* strobe is refused and queues nothing; with one of the three the frame
\* queued has one transition byte (0x3a, 0x3b, 0x3c) between the delay byte
\* and the trailing 0xff 0x0f, so that all these frames have the same length:
\* the opcode, 16 slots of 4 bytes, the delay, the transition, 0xff, 0x0f.
C14_CustomPatternFrame ==
    [][ \A pattern \in CustomPatternInputs, speed \in SpeedInputs :
            (pattern.customMode /\ SetCustomPatternOf(pattern, speed)) =>
                IF pattern.transitionType \in {"fade", "jump", "strobe"}
                THEN /\ Len(commandQueue') = Len(commandQueue) + 1
                     /\ Len(C14_Enqueued) = 1 + 16 * 4 + 1 + 1 + 2
                     /\ C14_Enqueued[1] = 81
                     /\ C14_Enqueued[66] = ByteOfTenths(speedToDelay(speed))
                     /\ C14_Enqueued[67] =
                            (CASE pattern.transitionType = "fade" -> 58
                               [] pattern.transitionType = "jump" -> 59
                               [] pattern.transitionType = "strobe" -> 60)
                     /\ C14_Enqueued[68] = 255
                     /\ C14_Enqueued[69] = 15
                ELSE /\ Len(rejectedCalls') = Len(rejectedCalls) + 1
                     /\ commandQueue' = commandQueue ]_vars

\* C15: a step that resolves the command of a query with fewer than 14 bytes
\* makes the query fail with the protocol error and nothing more: the options
\* and the remembered colour and whites are unchanged, the promises of the
\* other commands are untouched, and with commands behind the query the
\* socket is kept as it is and the next command is written in the same step.
C15_ShortReplyFailsQueryOnly ==
    [][ \A c \in Commands :
            ( /\ promises[c].op = "queryState"
              /\ Pending(c)
              /\ promises'[c].state = "resolved"
              /\ Len(promises'[c].data) < 14 ) =>
                /\ queryStateResult(promises'[c].data) = [error |-> "Only got short reply"]
                /\ options' = options
                /\ lastColor' = lastColor /\ lastWW' = lastWW /\ lastCW' = lastCW
                /\ \A d \in Commands \ {c} : promises'[d] = promises[d]
                /\ commandQueue # <<>> /\ commandQueue[1].id = c
                /\ commandQueue' = Tail(commandQueue)
                /\ commandQueue' # <<>> =>
                      /\ socket' = socket /\ socket # 0
                      /\ sockets' = sockets
                      /\ written'[commandQueue'[1].id] =
                             written[commandQueue'[1].id] + 1 ]_vars

\* C15 witness: a query was resolved with the one byte the controller sent,
\* and the command behind it was then resolved on the same connection.
C15_Witness ==
    /\ settleLog = <<1, 2>>
    /\ promises[1].op = "queryState"
    /\ promises[1].state = "resolved"
    /\ Len(promises[1].data) = 1
    /\ promises[2].state = "resolved"
    /\ written[2] = 1
    /\ Len(sockets) = 1
    /\ ~options.applyMasks /\ ~options.coldWhiteSupport

\* the step resolves the query c with a reply that is long enough to decode
Decodes(c) ==
    /\ promises[c].op = "queryState"
    /\ Pending(c)
    /\ promises'[c].state = "resolved"
    /\ Len(promises'[c].data) >= 14

\* C16: the step that decodes a reply of at least 14 bytes leaves the two
\* flags as a function of their values before and of the type code (byte 1)
\* alone, whatever the other bytes are: applyMasks becomes true for the types
\* 0x25, 0x35 and 0x44, coldWhiteSupport for 0x35, and for every other type
\* both keep their values; the other options are not touched.
C16_FlagsByTypeCode ==
    [][ \A c \in Commands :
            Decodes(c) =>
                LET type == readUInt8(promises'[c].data, 1)
                IN  /\ options'.applyMasks =
                          (options.applyMasks \/ type \in {37, 53, 68})
                    /\ options'.coldWhiteSupport =
                          (options.coldWhiteSupport \/ type = 53)
                    /\ options'.ack = options.ack
                    /\ options'.commandTimeoutLength = options.commandTimeoutLength
                    /\ options'.connectTimeoutLength = options.connectTimeoutLength ]_vars

\* C16 witness: a reply of type 0x44 in colour mode was decoded on an
\* instance constructed with both flags false: applyMasks alone is true.
C16_Witness ==
    /\ promises[1].state = "resolved"
    /\ Len(promises[1].data) = 14
    /\ readUInt8(promises[1].data, 1) = 68
    /\ readUInt8(promises[1].data, 3) = 97
    /\ options.applyMasks
    /\ ~options.coldWhiteSupport
    /\ lastColor = [red |-> 255, green |-> 128, blue |-> 0]

\* C18 as stated: decoding a reply of at least 14 bytes with byte 3 = 0x35
\* sets coldWhiteSupport and applyMasks to true.
C18_Byte3SetsFlags ==
    [][ \A c \in Commands :
            (Decodes(c) /\ readUInt8(promises'[c].data, 3) = 53) =>
                /\ options'.coldWhiteSupport
                /\ options'.applyMasks ]_vars

\* C18: decoding a reply of at least 14 bytes whose type code (byte 1) is
\* 0x35 sets coldWhiteSupport and applyMasks to true on the instance.
C18_TypeCodeSetsFlags ==
    [][ \A c \in Commands :
            (Decodes(c) /\ readUInt8(promises'[c].data, 1) = 53) =>
                /\ options'.coldWhiteSupport
                /\ options'.applyMasks ]_vars

\* C18 witness: a reply of type 0x35 whose byte 3 is 0x61 was decoded on an
\* instance constructed with both flags false, and both flags are true.
C18_Witness ==
    /\ promises[1].state = "resolved"
    /\ Len(promises[1].data) = 14
    /\ readUInt8(promises[1].data, 1) = 53
    /\ readUInt8(promises[1].data, 3) = 97
    /\ options.coldWhiteSupport
    /\ options.applyMasks

\* the modes whose condition, as C20 gives it, the pair of bytes satisfies
C20_Modes(byte3, byte4) ==
    {mode \in {"color", "special", "custom", "pattern", "ia_pattern"} :
        \/ mode = "color" /\ (byte3 = 97 \/ (byte3 = 0 /\ byte4 = 97))
        \/ mode = "special" /\ byte3 = 98
        \/ mode = "custom" /\ byte3 = 96
        \/ mode = "pattern" /\ 37 <= byte3 /\ byte3 <= 56
        \/ mode = "ia_pattern" /\ 100 <= byte3 * 256 + byte4
                                /\ byte3 * 256 + byte4 <= 399}

\* C20: for every pair of bytes 3 and 4 at most one of the five conditions
\* holds, and the mode that a decoded reply is given is the mode of the
\* condition that holds, or none when none holds.
C20_ModeByBytes ==
    \A c \in Commands :
        (promises[c].state = "resolved" /\ Len(promises[c].data) >= 14) =>
            LET byte3 == readUInt8(promises[c].data, 3)
                byte4 == readUInt8(promises[c].data, 4)
                mode == queryStateResult(promises[c].data).mode
            IN  /\ Cardinality(C20_Modes(byte3, byte4)) <= 1
                /\ IF C20_Modes(byte3, byte4) = {}
                   THEN mode = "null"
                   ELSE mode \in C20_Modes(byte3, byte4)

\* C20 witness: a reply with the bytes 0x01 0x8f, the greatest 16-bit code
\* of the extended patterns, was decoded as ia_pattern with the identifier 300.
C20_Witness ==
    /\ promises[1].state = "resolved"
    /\ Len(promises[1].data) = 14
    /\ readUInt8(promises[1].data, 3) = 1
    /\ readUInt8(promises[1].data, 4) = 143
    /\ queryStateResult(promises[1].data).mode = "ia_pattern"
    /\ queryStateResult(promises[1].data).pattern = <<"code", 300>>

\* C17: no step changes applyMasks or coldWhiteSupport from true to false,
\* and a step that changes one of them is a step that resolves a query with
\* a reply long enough to decode: no set command, timeout, short reply or
\* socket error changes them.
C17_FlagsOnlyRiseOnQuery ==
    [][ /\ options.applyMasks => options'.applyMasks
        /\ options.coldWhiteSupport => options'.coldWhiteSupport
        /\ ( \/ options'.applyMasks # options.applyMasks
             \/ options'.coldWhiteSupport # options.coldWhiteSupport ) =>
                \E c \in Commands : Decodes(c) ]_vars

\* C17 witness: both flags are true after a query that was resolved with
\* its reply, behind a set command that was resolved with such a reply too.
C17_Witness ==
    /\ settleLog = <<1, 2>>
    /\ promises[1].op = "setPower"
    /\ promises[1].state = "resolved"
    /\ Len(promises[1].data) = 14
    /\ promises[2].op = "queryState"
    /\ promises[2].state = "resolved"
    /\ Len(promises[2].data) = 14
    /\ options.applyMasks
    /\ options.coldWhiteSupport

\* the sum of the first n bytes of a frame, from its last byte down
RECURSIVE C19_SumOfFirst(_, _)
C19_SumOfFirst(frame, n) ==
    IF n = 0 THEN 0 ELSE C19_SumOfFirst(frame, n - 1) + frame[n]

\* the last byte of a queued command is the sum of the bytes before it, modulo 256
C19_ChecksumEnds(command) ==
    /\ Len(command) >= 1
    /\ command[Len(command)] \in 0..255
    /\ \E q \in 0..Len(command) :
          C19_SumOfFirst(command, Len(command) - 1) = 256 * q + command[Len(command)]

\* C19: every command in the queue ends with the checksum of the bytes
\* before it, and a call of sendCommand with a frame queues the frame, its
\* bytes unchanged, followed by that one byte.
C19_FramePlusChecksum ==
    /\ \A i \in DOMAIN commandQueue : C19_ChecksumEnds(commandQueue[i].command)
    /\ [][ \A buf \in FrameInputs :
               SendCommandOf(buf) =>
                   /\ Len(commandQueue') = Len(commandQueue) + 1
                   /\ LET command == commandQueue'[Len(commandQueue')].command
                      IN  /\ Len(command) = Len(buf) + 1
                          /\ SubSeq(command, 1, Len(buf)) = buf
                          /\ C19_ChecksumEnds(command) ]_vars

\* C19 witness: the frame 0xff 0xff is queued with the checksum 0xfe behind
\* the empty frame, which is queued as the one byte 0.
C19_Witness ==
    /\ Len(commandQueue) = 2
    /\ commandQueue[1].command = <<0>>
    /\ commandQueue[2].command = <<255, 255, 254>>

\* C21: with the command timeout disabled (null or undefined) no step arms
\* a command timer and no command is rejected with the timeout error; and
\* in every case a step that arms a command timer for a command is the
\* completion of the write of that command, which expects a reply.
C21_NoTimerWhenDisabled ==
    [][ /\ options.commandTimeoutLength \in {Null, Undefined} =>
              /\ \A c \in DOMAIN commandTimers' : commandTimers'[c] = 0
              /\ \A c \in DOMAIN promises' : promises'[c].err # "Command timed out"
        /\ \A c \in Commands :
              commandTimers'[c] > commandTimers[c] =>
                  \E i \in DOMAIN pendingWrites :
                      /\ WriteCompletesAt(i)
                      /\ pendingWrites[i].id = c
                      /\ pendingWrites[i].expectReply ]_vars

\* the distance of two numbers, and the bound 2^-46 of the rounding of a
\* round trip
C22_Distance(a, b) == IF LessEq(a, b) THEN Minus(b, a, 0) ELSE Minus(a, b, 0)

C22_RoundingBound == [i \in 1..NumBits |-> IF i = UnitBits - 46 + 1 THEN 1 ELSE 0]

\* what both readings of C22 say of speedToDelay: it returns 31 for 0 (and
\* below), 1 for 100 (and above), and a number within [1, 31] for every speed
C22_DelayRange ==
    conversion.delay # <<>> =>
        /\ LessEq(NumberOf(1), conversion.delay)
        /\ LessEq(conversion.delay, NumberOf(31))
        /\ conversion.speed <= 0 => conversion.delay = NumberOf(31)
        /\ conversion.speed >= 100 => conversion.delay = NumberOf(1)

C23_IAPatternWire ==
    [][ \A code \in IAPatternCodes, speed \in SpeedInputs :
            SetIAPatternOf(code, speed) =>
                /\ Len(commandQueue') = Len(commandQueue) + 1
                /\ LET command == commandQueue'[Len(commandQueue')].command
                       reply == ReplyOf(51, command[2], command[3])
                   IN  /\ command[1] = 97
                       /\ command[2] \in 0..255 /\ command[3] \in 0..255
                       /\ command[2] * 256 + command[3] = code + 99
                       /\ 100 <= readUInt16BE(reply, 3) /\ readUInt16BE(reply, 3) <= 399
                       /\ determineMode(reply) = "ia_pattern"
                       /\ determinePattern(reply) = <<"code", code>> ]_vars

\* C23 witness: the frame of the code 157 is queued, whose wire value 256
\* has the high byte 1 and the low byte 0.
C23_Witness ==
    /\ Len(commandQueue) = 1
    /\ promises[1].op = "setIAPattern"
    /\ SubSeq(commandQueue[1].command, 1, 3) = <<97, 1, 0>>

\* the frame that a step has appended to the queue is a colour frame: opcode
\* 0x31, the given mask byte before the trailing 0x0f, and the cold-white
\* byte before the mask byte exactly when coldWhiteSupport was true at the call
C24_ColorFrame(mask) ==
    /\ Len(commandQueue') = Len(commandQueue) + 1
    /\ LET command == commandQueue'[Len(commandQueue')].command
           frame == SubSeq(command, 1, Len(command) - 1)
       IN  /\ frame[1] = 49
           /\ Len(frame) = (IF options.coldWhiteSupport THEN 8 ELSE 7)
           /\ frame[Len(frame)] = 15
           /\ frame[Len(frame) - 1] = mask

\* C24: the mask byte is 0xf0 for setColor and 0x0f for setWarmWhite and
\* setWhites when applyMasks is true at the call, 0 for them when it is
\* false, and 0 for setColorAndWarmWhite and setColorAndWhites; the frame has
\* the cold-white byte, before the mask byte, exactly when coldWhiteSupport
\* is true at the call, and setWhites and setColorAndWhites then send the
\* cold-white level they are given.
C24_MaskAndColdWhite ==
    [][ /\ \A c \in ColorInputs :
              SetColorOf(c[1], c[2], c[3]) =>
                  C24_ColorFrame(IF options.applyMasks THEN 240 ELSE 0)
        /\ \A ww \in WarmWhiteInputs :
              SetWarmWhiteOf(ww) =>
                  C24_ColorFrame(IF options.applyMasks THEN 15 ELSE 0)
        /\ \A ww \in WarmWhiteInputs, cw \in ColdWhiteInputs :
              SetWhitesOf(ww, cw) =>
                  /\ C24_ColorFrame(IF options.applyMasks THEN 15 ELSE 0)
                  /\ options.coldWhiteSupport =>
                        commandQueue'[Len(commandQueue')].command[6] = cw
        /\ \A c \in ColorInputs, ww \in WarmWhiteInputs :
              SetColorAndWarmWhiteOf(c[1], c[2], c[3], ww) => C24_ColorFrame(0)
        /\ \A c \in ColorInputs, ww \in WarmWhiteInputs, cw \in ColdWhiteInputs :
              SetColorAndWhitesOf(c[1], c[2], c[3], ww, cw) =>
                  /\ C24_ColorFrame(0)
                  /\ options.coldWhiteSupport =>
                        commandQueue'[Len(commandQueue')].command[6] = cw ]_vars

\* C24 witness: on the instance that has set both flags itself, setColor
\* has queued a frame with a cold-white byte and the mask 0xf0.
C24_Witness ==
    /\ Len(promises) = 2
    /\ promises[1].op = "queryState"
    /\ options.applyMasks /\ options.coldWhiteSupport
    /\ Len(commandQueue) = 1
    /\ SubSeq(commandQueue[1].command, 1, 8) = <<49, 255, 0, 255, 0, 0, 240, 15>>

\* the colour command c has succeeded: its promise is resolved with true
C29_Succeeded(c) ==
    /\ promises[c].op = "sendColorChangeCommand"
    /\ promises[c].state = "resolved"
    /\ (Len(promises[c].data) > 0 \/ ~options.ack.color)

\* C29: with masks not applied, of two colour commands that both succeed
\* the later one carries the colour that the earlier one has set, and the
\* warm white that the earlier one has set, unless it sets that value
\* itself: a colour set by setColor is in the frame of a later setWarmWhite
\* (never the colour remembered before that setColor), and the warm white
\* set by setWarmWhite is in the frame of a later setColor.
C29_LaterFrameKeepsEarlierValue ==
    \A i \in Commands, j \in Commands :
        (i < j /\ ~options.applyMasks /\ C29_Succeeded(i) /\ C29_Succeeded(j)) =>
            /\ \A c \in ColorInputs :
                  promises[i].color = [red |-> clamp(c[1], 0, 255),
                                       green |-> clamp(c[2], 0, 255),
                                       blue |-> clamp(c[3], 0, 255)]
                      => promises[j].color = promises[i].color
            /\ promises[i].ww \in WarmWhiteInputs => promises[j].ww = promises[i].ww

\* C25: a set command whose acknowledgement is enabled is never resolved
\* with the value false: when its promise is resolved, it is resolved with
\* bytes, which its continuation maps to true.
C25_AckedSetNeverFalse ==
    \A c \in Commands :
        ( /\ promises[c].op = "setPower"
          /\ options.ack.power
          /\ promises[c].state = "resolved" ) =>
              /\ Len(promises[c].data) > 0
              /\ setPowerResult(options, promises[c].data)

\* no timer is armed while the instance is idle
C26_NoTimerWhileIdle ==
    Idle => /\ receiveTimeout = "none"
            /\ \A c \in DOMAIN commandTimers : commandTimers[c] = 0
            /\ connectTimers = {}

\* C26: when the instance is idle (after a hard reset or a drained queue)
\* no timer is armed, and a timer that fires settles commands of its own
\* session only: a command timer the command it was armed for, a connect
\* timer commands of the connection it was armed for.
C26_TimersEndWithSession ==
    /\ C26_NoTimerWhileIdle
    /\ [][ /\ C26_NoTimerWhileIdle'
           /\ \A id \in DOMAIN commandTimers :
                 CommandTimeoutFiresFor(id) =>
                     \A c \in Commands : Settles(c) => c = id
           /\ \A s \in DOMAIN sockets :
                 ConnectTimeoutFiresFor(s) =>
                     \A c \in Commands : Settles(c) => SessionOf(c) = s ]_vars

\* C27: a command whose promise is resolved has had its frame written to
\* the socket, and a step that resolves a command resolves one that
\* handleNextCommand had dispatched before the step.
C27_ResolvedAfterWritten ==
    /\ \A c \in Commands : promises[c].state = "resolved" => written[c] > 0
    /\ [][ \A c \in Commands :
               (Pending(c) /\ promises'[c].state = "resolved") => written[c] > 0 ]_vars

\* C28: the frame of a command is written to the socket at most once.
C28_WrittenAtMostOnce ==
    \A c \in Commands : written[c] <= 1

\* what an event of a discarded socket leaves alone in the session that is
\* current: its commands and their promises, its socket, its connect
\* timeout, its receive buffer, what has been written
C30_SessionUnchanged ==
    /\ UNCHANGED <<promises, settleLog, commandQueue, socket, connectTimeout,
                   connectTimers, receivedData, written, pendingWrites>>
    /\ sockets'[socket].ended = sockets[socket].ended

\* C30: while a later session is current, the connect callback, an error
\* or data of a socket that the instance has discarded change nothing of
\* that session.
C30_LateEventsChangeNothing ==
    [][ socket # 0 =>
          /\ \A s \in DOMAIN sockets \ {socket} :
                /\ SocketConnectOn(s) => C30_SessionUnchanged
                /\ \A err \in SocketErrors :
                      SocketErrorOn(s, err) => C30_SessionUnchanged
          /\ \A data \in DataChunks :
                (SocketDataOf(data) /\ sockets[socket].state # "connected") =>
                    C30_SessionUnchanged ]_vars

=============================================================================
